---- MODULE Spec2Model ----
(***************************************************************************)
(* A model of display.py: the SVG path parser PathDrawer.__init__ /        *)
(* _add_command, the replay PathDrawer.draw on a turtle, the glyph         *)
(* DigitDisplay and the strip DigitsDisplay.                               *)
(*                                                                         *)
(* A Python str is a sequence of one-character strings.  An Optional[...]  *)
(* is a sequence of length at most one: None is << >>, a value v is <<v>>. *)
(* Coordinates are integers: the inputs hold no fraction and no exponent,  *)
(* and float(p) * scale of an integer literal by an integer scale is exact.*)
(***************************************************************************)
EXTENDS Integers, Sequences, FiniteSets, TLC

VARIABLES
    path_d,       \* PathDrawer.__init__: the d attribute being parsed
    scale,        \* PathDrawer.__init__: the scale argument
    pc,           \* where the PathDrawer under study is
    err,          \* the exception that ended the last operation, "" if none
    commands,     \* PathDrawer.commands
    offset,       \* the offset argument of PathDrawer.draw, or of DigitsDisplay.draw
    idx,          \* PathDrawer.draw: index of the next command of the for loop
    first_point,  \* PathDrawer.draw: local first_point
    max_x,        \* PathDrawer.draw: local max_x
    ret,          \* PathDrawer.draw: the value returned
    t,            \* the turtle: position, pen state and the calls it received
    trail,        \* the turtle's position before each command replayed so far
    font,         \* DigitsDisplay: which font directory was loaded
    digits_str,   \* DigitsDisplay.draw: the digits_str argument
    dpc,          \* where DigitsDisplay.draw is
    derr,         \* the exception that ended DigitsDisplay.draw, "" if none
    k,            \* DigitsDisplay.draw: index of the next character
    x_offset,     \* DigitsDisplay.draw: local x_offset
    glyph_draws   \* the DigitDisplay.draw calls made: <<digit, x_offset, returned>>

pathVars == <<path_d, scale, pc, err, commands, offset, idx, first_point, max_x, ret, trail>>
stripVars == <<font, digits_str, dpc, derr, k, x_offset, glyph_draws>>
vars == <<path_d, scale, pc, err, commands, offset, idx, first_point, max_x, ret, t,
          trail, font, digits_str, dpc, derr, k, x_offset, glyph_draws>>

None == << >>
Some(v) == <<v>>

(***************************************************************************)
(* Characters.                                                             *)
(***************************************************************************)
LowerSeq == <<"a","b","c","d","e","f","g","h","i","j","k","l","m",
              "n","o","p","q","r","s","t","u","v","w","x","y","z">>
UpperSeq == <<"A","B","C","D","E","F","G","H","I","J","K","L","M",
              "N","O","P","Q","R","S","T","U","V","W","X","Y","Z">>
DigitSeq == <<"0","1","2","3","4","5","6","7","8","9">>

Range(s) == { s[i] : i \in DOMAIN s }

\* str.islower / str.isupper / str.upper / str.lower of one character
islower(c) == c \in Range(LowerSeq)
isupper(c) == c \in Range(UpperSeq)
upper(c) == IF islower(c) THEN UpperSeq[CHOOSE i \in DOMAIN LowerSeq : LowerSeq[i] = c] ELSE c
lower(c) == IF isupper(c) THEN LowerSeq[CHOOSE i \in DOMAIN UpperSeq : UpperSeq[i] = c] ELSE c

\* the character classes of PATH_D_PAT: [a-zA-Z], [\d\.e-] and [, ]
IsCmdChar(c) == islower(c) \/ isupper(c)
IsNumChar(c) == c \in Range(DigitSeq) \cup {".", "e", "-"}
IsSepChar(c) == c \in {",", " "}

(***************************************************************************)
(* re.findall(PATH_D_PAT, path_d).                                         *)
(***************************************************************************)
\* [\d\.e-]+ , greedy, from position i: the first position after the run
RECURSIVE NumRunEnd(_, _)
NumRunEnd(s, i) ==
    IF i <= Len(s) /\ IsNumChar(s[i]) THEN NumRunEnd(s, i + 1) ELSE i

\* (?:-?[\d\.e-]+[, ]?)+ , greedy, from position i: the position after the last
\* item matched, i itself when not even one item matches.  "-" is in the class,
\* so -?[\d\.e-]+ matches exactly the non-empty runs of the class.
RECURSIVE ItemsEnd(_, _)
ItemsEnd(s, i) ==
    IF i <= Len(s) /\ IsNumChar(s[i])
    THEN LET j == NumRunEnd(s, i)
             n == IF j <= Len(s) /\ IsSepChar(s[j]) THEN j + 1 ELSE j
         IN  ItemsEnd(s, n)
    ELSE i

\* (?P<params> ?(?:...)+)? from position p: the position after the group, p when
\* the group does not take part.  The optional space is given back when no item
\* follows it, and then no item starts at the space either.
ParamsEnd(s, p) ==
    IF p <= Len(s) /\ s[p] = " "
    THEN IF ItemsEnd(s, p + 1) > p + 1 THEN ItemsEnd(s, p + 1) ELSE p
    ELSE ItemsEnd(s, p)

\* the non-overlapping matches, left to right, as <<cmd, params_str>> pairs
RECURSIVE FindAllFrom(_, _)
FindAllFrom(s, i) ==
    IF i > Len(s) THEN << >>
    ELSE IF IsCmdChar(s[i])
         THEN LET e == ParamsEnd(s, i + 1)
              IN  << <<s[i], SubSeq(s, i + 1, e - 1)>> >> \o FindAllFrom(s, e)
         ELSE FindAllFrom(s, i + 1)

FindAll(s) == FindAllFrom(s, 1)

(***************************************************************************)
(* params_str.strip().split(" "), then re.split("[, ]", group) with the    *)
(* empty strings dropped: the maximal runs of characters that are neither  *)
(* a comma nor a space, in order.                                          *)
(***************************************************************************)
RECURSIVE TokensFrom(_, _, _)
TokensFrom(s, i, cur) ==
    IF i > Len(s) THEN (IF cur = << >> THEN << >> ELSE <<cur>>)
    ELSE IF IsSepChar(s[i])
         THEN (IF cur = << >> THEN << >> ELSE <<cur>>) \o TokensFrom(s, i + 1, << >>)
         ELSE TokensFrom(s, i + 1, Append(cur, s[i]))

Tokens(params_str) == TokensFrom(params_str, 1, << >>)

\* float(p) of a token of digits and "-": a value for -?\d+, ValueError otherwise
IsDigits(p) == Len(p) > 0 /\ \A i \in DOMAIN p : p[i] \in Range(DigitSeq)
IsFloat(p) ==
    \/ IsDigits(p)
    \/ Len(p) > 1 /\ p[1] = "-" /\ IsDigits(Tail(p))

DigitVal(c) == (CHOOSE i \in DOMAIN DigitSeq : DigitSeq[i] = c) - 1

RECURSIVE NatVal(_)
NatVal(p) == IF p = << >> THEN 0 ELSE 10 * NatVal(SubSeq(p, 1, Len(p) - 1)) + DigitVal(p[Len(p)])

Float(p) == IF p[1] = "-" THEN 0 - NatVal(Tail(p)) ELSE NatVal(p)

\* all_params: float(p) * scale of every token, in order
RECURSIVE ScaleAll(_, _)
ScaleAll(toks, sc) ==
    IF toks = << >> THEN << >> ELSE <<Float(Head(toks)) * sc>> \o ScaleAll(Tail(toks), sc)

AllParams(params_str, sc) == ScaleAll(Tokens(params_str), sc)

\* param_groups: all_params cut into lists of two, the last of one when the count
\* is odd; [[]] when there is no parameter
RECURSIVE ParamGroups(_)
ParamGroups(all) ==
    IF Len(all) <= 2 THEN <<all>>
    ELSE << SubSeq(all, 1, 2) >> \o ParamGroups(SubSeq(all, 3, Len(all)))

(***************************************************************************)
(* PathCommand and PathDrawer._add_command.                                *)
(***************************************************************************)
PathCommand(is_abs, pendown, x, y) ==
    [is_abs |-> is_abs, pendown |-> pendown, x |-> x, y |-> y]

\* self.commands after _add_command(cmd, params), or the IndexError of params[0]
\* on an empty list for a "v" command
_add_command(cmds, cmd, params) ==
    LET cmd_type == lower(cmd)
        is_abs == isupper(cmd)
        pendown == cmd_type # "m"
        x == IF Len(params) > 0 /\ cmd_type # "v" THEN Some(params[1]) ELSE None
    IN  IF Len(params) = 0 /\ cmd_type = "v"
        THEN [commands |-> cmds, err |-> "IndexError"]
        ELSE LET y0 == IF Len(params) > 1 THEN Some(params[2])
                       ELSE IF cmd_type = "v" THEN Some(params[1]) ELSE None
                 y == IF y0 # None THEN Some(0 - y0[1]) ELSE None
             IN  [commands |-> Append(cmds, PathCommand(is_abs, pendown, x, y)),
                  err |-> ""]

\* a parser that leaves the first letter as written
NormalizedCmdAsWritten(cmds, cmd) == cmd

\* the first command of the path is made absolute
NormalizedCmd(cmds, cmd) == IF Len(cmds) = 0 THEN upper(cmd) ELSE cmd

\* a parser that takes the letter of the implicit commands from the normalized
\* letter instead of the letter as written
ImplicitCmdFromNormalized(cmd, normalized_cmd) ==
    IF normalized_cmd = "m" THEN "l" ELSE IF normalized_cmd = "M" THEN "L" ELSE normalized_cmd

\* the letter of the commands that the parameter groups after the first stand for
ImplicitCmd(cmd, normalized_cmd) ==
    IF cmd = "m" THEN "l" ELSE IF cmd = "M" THEN "L" ELSE cmd

RECURSIVE AddImplicit(_, _, _)
AddImplicit(cmds, implicit_cmd, groups) ==
    IF groups = << >> THEN [commands |-> cmds, err |-> ""]
    ELSE LET r == _add_command(cmds, implicit_cmd, Head(groups))
         IN  IF r.err # "" THEN r ELSE AddImplicit(r.commands, implicit_cmd, Tail(groups))

\* one iteration of the for loop of __init__, on the match <<cmd, params_str>>
ParseMatch(cmds, cmd, params_str, sc) ==
    IF \E i \in DOMAIN Tokens(params_str) : ~IsFloat(Tokens(params_str)[i])
    THEN [commands |-> cmds, err |-> "ValueError"]
    ELSE LET param_groups == ParamGroups(AllParams(params_str, sc))
             normalized_cmd == NormalizedCmd(cmds, cmd)
             r == _add_command(cmds, normalized_cmd, Head(param_groups))
         IN  IF r.err # "" THEN r
             ELSE AddImplicit(r.commands, ImplicitCmd(cmd, normalized_cmd), Tail(param_groups))

RECURSIVE ParseFrom(_, _, _)
ParseFrom(cmds, matches, sc) ==
    IF matches = << >> THEN [commands |-> cmds, err |-> ""]
    ELSE LET r == ParseMatch(cmds, Head(matches)[1], Head(matches)[2], sc)
         IN  IF r.err # "" THEN r ELSE ParseFrom(r.commands, Tail(matches), sc)

\* PathDrawer.__init__: the commands built, and the exception raised if any
PathDrawerInit(d, sc) == ParseFrom(<< >>, FindAll(d), sc)

(***************************************************************************)
(* The turtle (RawTurtle): its position, its pen, and the calls that       *)
(* changed it since the last reset.  A new or reset turtle is at (0, 0)    *)
(* with the pen down.                                                      *)
(***************************************************************************)
NewTurtle == [pos |-> <<0, 0>>, isdown |-> TRUE, calls |-> << >>]

pendown(tu) == [tu EXCEPT !.isdown = TRUE, !.calls = Append(@, <<"pendown">>)]
penup(tu) == [tu EXCEPT !.isdown = FALSE, !.calls = Append(@, <<"penup">>)]
goto(tu, x, y) == [tu EXCEPT !.pos = <<x, y>>, !.calls = Append(@, <<"goto", x, y>>)]
setx(tu, x) == [tu EXCEPT !.pos = <<x, tu.pos[2]>>, !.calls = Append(@, <<"setx", x>>)]
sety(tu, y) == [tu EXCEPT !.pos = <<tu.pos[1], y>>, !.calls = Append(@, <<"sety", y>>)]
xcor(tu) == tu.pos[1]
ycor(tu) == tu.pos[2]
\* reset(), speed(self.speed), hideturtle() at the head of DigitsDisplay.draw
ResetTurtle(tu) == [NewTurtle EXCEPT !.calls = << <<"reset">>, <<"speed">>, <<"hideturtle">> >>]

(***************************************************************************)
(* PathDrawer.draw.                                                        *)
(***************************************************************************)
\* max_x = self.commands[-1].y
MaxXSeed(cmds) == cmds[Len(cmds)].y

\* a replay that closes every path at the origin
FirstPointAlwaysOrigin(fp) == <<0, 0>>

\* first_point or (0, 0): a Vec2D is a non-empty tuple, so only None is falsy
FirstPointOrOrigin(fp) == IF fp = None THEN <<0, 0>> ELSE fp[1]

\* the running maximum after a command: line 95-96
UpdateMaxX(mx, tu) == IF mx = None \/ xcor(tu) > mx[1] THEN Some(xcor(tu)) ELSE mx

\* the body of the for loop on one command; st holds t, first_point and max_x
DrawStep(cmd, st, off) ==
    LET t1 == IF cmd.pendown THEN pendown(st.t) ELSE penup(st.t)
        fp1 == IF cmd.pendown /\ st.first_point = None THEN Some(t1.pos) ELSE st.first_point
        x == IF cmd.x = None THEN 0
             ELSE IF cmd.is_abs THEN cmd.x[1] + off[1] ELSE cmd.x[1] + xcor(t1)
        y == IF cmd.y = None THEN 0
             ELSE IF cmd.is_abs THEN cmd.y[1] + off[2] ELSE cmd.y[1] + ycor(t1)
        t2 == IF cmd.x = None /\ cmd.y = None
              THEN goto(t1, FirstPointOrOrigin(fp1)[1], FirstPointOrOrigin(fp1)[2])
              ELSE IF cmd.y = None THEN setx(t1, x)
              ELSE IF cmd.x = None THEN sety(t1, y)
              ELSE goto(t1, x, y)
        fp2 == IF cmd.x = None /\ cmd.y = None THEN None ELSE fp1
    IN  [t |-> t2, first_point |-> fp2, max_x |-> UpdateMaxX(st.max_x, t2)]

\* return max_x or 0
DrawReturn(mx) == IF mx = None \/ mx[1] = 0 THEN 0 ELSE mx[1]

RECURSIVE DrawLoop(_, _, _, _)
DrawLoop(cmds, i, st, off) ==
    IF i > Len(cmds) THEN st ELSE DrawLoop(cmds, i + 1, DrawStep(cmds[i], st, off), off)

\* the whole of PathDrawer.draw on turtle tu: the turtle after it, the value
\* returned, and the IndexError of self.commands[-1] on an empty list
PathDraw(cmds, tu, off) ==
    IF Len(cmds) = 0 THEN [t |-> tu, ret |-> 0, err |-> "IndexError"]
    ELSE LET st == DrawLoop(cmds, 1, [t |-> tu, first_point |-> None,
                                      max_x |-> MaxXSeed(cmds)], off)
         IN  [t |-> st.t, ret |-> DrawReturn(st.max_x), err |-> ""]

(***************************************************************************)
(* The inputs explored.                                                    *)
(***************************************************************************)
\* the most numbers written in a generated path
MaxParams == 4
\* the most command letters of a generated path
MaxSegs == 2

\* the letters of the generated paths: both cases of moveto and lineto, and one
\* case of each other family (the example paths below hold h, V, z and C)
CmdLetters == {"m", "M", "l", "L", "H", "v", "Z"}

\* the numbers of a generated path, in the order they are written
NumberTexts == << <<"1">>, <<"-", "2">>, <<"3">>, <<"0">>, <<"-", "4">>, <<"2">> >>
NumberText(j) == NumberTexts[((j - 1) % Len(NumberTexts)) + 1]

\* n numbers after a letter, the first being the path's number `from`: a comma
\* inside a pair, a space between pairs, as in "1,-2 3,0"
RECURSIVE ParamText(_, _)
ParamText(from, n) ==
    IF n = 0 THEN << >>
    ELSE IF n = 1 THEN NumberText(from)
    ELSE ParamText(from, n - 1)
         \o (IF n % 2 = 0 THEN <<",">> ELSE <<" ">>) \o NumberText(from + n - 1)

\* the paths of at most segs letters that write the numbers from, from + 1, ...
\* up to number MaxParams
RECURSIVE PathsOf(_, _)
PathsOf(segs, from) ==
    IF segs = 0 THEN { << >> }
    ELSE { << >> } \cup
         UNION { { <<c>> \o ParamText(from, n) \o rest :
                     c \in CmdLetters, rest \in PathsOf(segs - 1, from + n) } :
                 n \in 0..(MaxParams + 1 - from) }

\* "M0,0 L10,0 L10,10 Z"
ClosedTriangle ==
    <<"M","0",",","0"," ","L","1","0",",","0"," ","L","1","0",",","1","0"," ","Z">>
\* "m 1,1 2,2"
MoveRepeat == <<"m"," ","1",",","1"," ","2",",","2">>
\* "M10,10H50"
MoveHorizontal == <<"M","1","0",",","1","0","H","5","0">>
\* "C0,0 1,1 2,2"
CurveTo == <<"C","0",",","0"," ","1",",","1"," ","2",",","2">>
\* "M0,0H20"
Segment20 == <<"M","0",",","0","H","2","0">>
\* "H 10 20"
HorizontalRepeat == <<"H"," ","1","0"," ","2","0">>
\* "V 10 20"
VerticalRepeat == <<"V"," ","1","0"," ","2","0">>
\* "M 0,5"
MoveFlip == <<"M"," ","0",",","5">>
\* "M0,0 L5,-20"
LineUp == <<"M","0",",","0"," ","L","5",",","-","2","0">>
\* "M1-2": float("1-2") raises ValueError
BadNumber == <<"M","1","-","2">>
\* "M1,1 L2,2 Z l3,0 0,3 z": two subpaths, each closed
TwoSubpaths ==
    <<"M","1",",","1"," ","L","2",",","2"," ","Z"," ","l","3",",","0"," ","0",",","3"," ","z">>
\* "M1,1 L2,2 m": a move without parameters after a line
MoveNoParams == <<"M","1",",","1"," ","L","2",",","2"," ","m">>

\* "M1,1 h5 v-3 V2 h-4 z": relative and absolute single-axis commands
RelativeAxes ==
    <<"M","1",",","1"," ","h","5"," ","v","-","3"," ","V","2"," ","h","-","4"," ","z">>

ExamplePaths == {ClosedTriangle, MoveRepeat, MoveHorizontal, CurveTo, Segment20,
                 HorizontalRepeat, VerticalRepeat, MoveFlip, LineUp, BadNumber,
                 TwoSubpaths, MoveNoParams, RelativeAxes}

PathInputs == PathsOf(MaxSegs, 1) \cup ExamplePaths

\* scale: 1 is the default of the classes, 5 the default of --scale
Scales == {1, 5}
Offsets == { <<0, 0>>, <<-30, 6>> }

(***************************************************************************)
(* One PathDrawer: its construction, then one draw.                        *)
(***************************************************************************)
\* PathDrawer(turtle, path_d, scale)
Construct ==
    /\ pc = "new"
    /\ \E d \in PathInputs, sc \in Scales :
         LET r == PathDrawerInit(d, sc)
         IN  /\ path_d' = d
             /\ scale' = sc
             /\ commands' = r.commands
             /\ err' = r.err
             /\ pc' = IF r.err = "" THEN "ready" ELSE "init_raised"
    /\ UNCHANGED <<offset, idx, first_point, max_x, ret, t, trail>>
    /\ UNCHANGED stripVars

\* draw(offset), up to the for loop: lines 67-68
DrawBegin ==
    /\ pc = "ready"
    /\ \E off \in Offsets :
         /\ offset' = off
         /\ IF Len(commands) = 0
            THEN /\ err' = "IndexError"
                 /\ pc' = "draw_raised"
                 /\ UNCHANGED <<first_point, max_x>>
            ELSE /\ first_point' = None
                 /\ max_x' = MaxXSeed(commands)
                 /\ pc' = "drawing"
                 /\ err' = ""
    /\ idx' = 1
    /\ trail' = << >>
    /\ UNCHANGED <<path_d, scale, commands, ret, t>>
    /\ UNCHANGED stripVars

\* one iteration of the for loop: lines 69-96
DrawCommand ==
    /\ pc = "drawing"
    /\ idx <= Len(commands)
    /\ LET st == DrawStep(commands[idx],
                          [t |-> t, first_point |-> first_point, max_x |-> max_x], offset)
       IN  /\ t' = st.t
           /\ first_point' = st.first_point
           /\ max_x' = st.max_x
    /\ trail' = Append(trail, t.pos)
    /\ idx' = idx + 1
    /\ UNCHANGED <<path_d, scale, pc, err, commands, offset, ret>>
    /\ UNCHANGED stripVars

\* return max_x or 0: line 97
DrawEnd ==
    /\ pc = "drawing"
    /\ idx > Len(commands)
    /\ ret' = Some(DrawReturn(max_x))
    /\ pc' = "returned"
    /\ UNCHANGED <<path_d, scale, err, commands, offset, idx, first_point, max_x, t, trail>>
    /\ UNCHANGED stripVars

PathInit ==
    /\ path_d = << >>
    /\ scale = 1
    /\ pc = "new"
    /\ err = ""
    /\ commands = << >>
    /\ offset = <<0, 0>>
    /\ idx = 1
    /\ first_point = None
    /\ max_x = None
    /\ ret = None
    /\ trail = << >>

StripIdle ==
    /\ font = "none"
    /\ digits_str = << >>
    /\ dpc = "off"
    /\ derr = ""
    /\ k = 1
    /\ x_offset = 0
    /\ glyph_draws = << >>

Init == PathInit /\ StripIdle /\ t = NewTurtle

Next == Construct \/ DrawBegin \/ DrawCommand \/ DrawEnd

Spec == Init /\ [][Next]_vars

(***************************************************************************)
(* DigitDisplay: the paths of one glyph file.                              *)
(***************************************************************************)
\* the font directories explored: the d attributes of the <path> elements of
\* <char>.svg, in document order
Fonts == {"segment20", "mixed"}

GlyphFile(f, char) ==
    IF f = "segment20" THEN <<Segment20>>
    ELSE IF char = "x" THEN <<ClosedTriangle>>
    ELSE IF char = "A" THEN <<Segment20, MoveHorizontal>>
    ELSE IF char = "B" THEN << >>
    ELSE <<MoveRepeat>>

\* self.paths = [PathDrawer(turtle, d, scale) for d in path_d_strings]: the
\* command list of each path (every path of the fonts above parses)
RECURSIVE DigitDisplayInit(_, _)
DigitDisplayInit(path_d_strings, sc) ==
    IF path_d_strings = << >> THEN << >>
    ELSE <<PathDrawerInit(Head(path_d_strings), sc).commands>>
         \o DigitDisplayInit(Tail(path_d_strings), sc)

\* the for loop of DigitDisplay.draw from path i on; acc holds t and max_x
RECURSIVE DigitDrawLoop(_, _, _, _)
DigitDrawLoop(paths, i, acc, off) ==
    IF i > Len(paths) THEN acc
    ELSE LET r == PathDraw(paths[i], acc.t, off)
         IN  IF r.err # "" THEN [t |-> r.t, max_x |-> acc.max_x, err |-> r.err]
             ELSE DigitDrawLoop(paths, i + 1,
                                [t |-> r.t,
                                 max_x |-> IF acc.max_x = None \/ r.ret > acc.max_x[1]
                                           THEN Some(r.ret) ELSE acc.max_x,
                                 err |-> ""], off)

\* DigitDisplay.draw(x_offset, global_offset): the turtle after it, the value
\* returned (max_x or 0), and the exception of a path's draw if any
DigitDisplayDraw(paths, tu, x_off, global_offset) ==
    LET acc == DigitDrawLoop(paths, 1, [t |-> tu, max_x |-> None, err |-> ""],
                             <<x_off, global_offset[2]>>)
    IN  [t |-> acc.t, ret |-> DrawReturn(acc.max_x), err |-> acc.err]

(***************************************************************************)
(* DigitsDisplay.                                                          *)
(***************************************************************************)
DIGIT_CHARS == {"0","1","2","3","4","5","6","7","8","9","A","B","C","D","E","F","x"}
DIGIT_MARGIN == 10

\* a strip that leaves no margin between digits
NextOffsetNoMargin(returned) == returned

\* line 147: where the next digit starts, given what the digit's draw returned
NextOffset(returned) == returned + DIGIT_MARGIN

\* self.digit_drawers[char]
DigitDrawer(f, sc, char) == DigitDisplayInit(GlyphFile(f, char), sc)

\* a lookup without the upper-case fallback
LookupDigitExact(digit) == IF digit \in DIGIT_CHARS THEN Some(digit) ELSE None

\* lines 143-146: the key under which the digit is drawn, None for ValueError
LookupDigit(digit) ==
    IF digit \in DIGIT_CHARS THEN Some(digit)
    ELSE IF upper(digit) \in DIGIT_CHARS THEN Some(upper(digit))
    ELSE None

\* the longest text drawn
MaxText == 3
TextChars == {"x", "A", "b", "0", "g", "X"}

RECURSIVE TextsOf(_)
TextsOf(n) ==
    IF n = 0 THEN { << >> }
    ELSE TextsOf(n - 1) \cup { s \o <<c>> : s \in TextsOf(n - 1), c \in TextChars }

\* "xAB"
TextXAB == <<"x", "A", "B">>

Texts == TextsOf(MaxText) \cup {TextXAB}

\* draw(digits_str, offset) up to the for loop: lines 138-141
StripDrawBegin ==
    /\ dpc = "idle"
    /\ \E s \in Texts, off \in Offsets :
         /\ digits_str' = s
         /\ offset' = off
         /\ x_offset' = off[1]
    /\ t' = ResetTurtle(t)
    /\ k' = 1
    /\ glyph_draws' = << >>
    /\ derr' = ""
    /\ dpc' = "loop"
    /\ UNCHANGED <<font>>
    /\ UNCHANGED <<path_d, scale, pc, err, commands, idx, first_point, max_x, ret, trail>>

\* one iteration of the for loop: lines 142-147
StripDigit ==
    /\ dpc = "loop"
    /\ k <= Len(digits_str)
    /\ LET digit == LookupDigit(digits_str[k])
       IN  IF digit = None
           THEN /\ derr' = "ValueError"
                /\ dpc' = "raised"
                /\ UNCHANGED <<t, k, x_offset, glyph_draws>>
           ELSE LET r == DigitDisplayDraw(DigitDrawer(font, scale, digit[1]), t,
                                          x_offset, <<0, 0>>)
                IN  /\ t' = r.t
                    /\ IF r.err # ""
                       THEN /\ derr' = r.err
                            /\ dpc' = "raised"
                            /\ glyph_draws' = Append(glyph_draws, <<digit[1], x_offset, None>>)
                            /\ UNCHANGED <<k, x_offset>>
                       ELSE /\ x_offset' = NextOffset(r.ret)
                            /\ glyph_draws' = Append(glyph_draws,
                                                     <<digit[1], x_offset, Some(r.ret)>>)
                            /\ k' = k + 1
                            /\ UNCHANGED <<derr, dpc>>
    /\ UNCHANGED <<font, digits_str>>
    /\ UNCHANGED pathVars

\* the for loop is over: draw returns
StripDrawEnd ==
    /\ dpc = "loop"
    /\ k > Len(digits_str)
    /\ dpc' = "done"
    /\ UNCHANGED <<font, digits_str, derr, k, x_offset, glyph_draws, t>>
    /\ UNCHANGED pathVars

\* DigitsDisplay(font_dir, screen, scale, speed) has returned
StripInit ==
    /\ font \in Fonts
    /\ scale \in Scales
    /\ digits_str = << >>
    /\ dpc = "idle"
    /\ derr = ""
    /\ k = 1
    /\ x_offset = 0
    /\ glyph_draws = << >>
    /\ t = NewTurtle
    /\ path_d = << >>
    /\ pc = "off"
    /\ err = ""
    /\ commands = << >>
    /\ offset = <<0, 0>>
    /\ idx = 1
    /\ first_point = None
    /\ max_x = None
    /\ ret = None
    /\ trail = << >>

StripNext == StripDrawBegin \/ StripDigit \/ StripDrawEnd

SpecStrip == StripInit /\ [][StripNext]_vars

(***************************************************************************)
(* What the parsed path was written as: for each command the parser is to  *)
(* emit, the letter it was written under, the rank of its parameter group  *)
(* after that letter, the group (scaled), and the number of values written *)
(* after the letter.                                                       *)
(***************************************************************************)
Matches == FindAll(path_d)

RECURSIVE GroupSources(_, _, _, _)
GroupSources(letter, groups, rank, nvals) ==
    IF groups = << >> THEN << >>
    ELSE << [letter |-> letter, rank |-> rank, group |-> Head(groups), nvals |-> nvals] >>
         \o GroupSources(letter, Tail(groups), rank + 1, nvals)

RECURSIVE SourcesOf(_)
SourcesOf(matches) ==
    IF matches = << >> THEN << >>
    ELSE LET all == AllParams(Head(matches)[2], scale)
         IN  GroupSources(Head(matches)[1], ParamGroups(all), 1, Len(all))
             \o SourcesOf(Tail(matches))

Sources == SourcesOf(Matches)

Supported == {"m", "M", "l", "L", "h", "H", "v", "V", "z", "Z"}

\* C1: a path with a command letter outside m/M/l/L/h/H/v/V/z/Z is rejected by
\* the parser with an unsupported-command error, and no command is produced.
C1_UnsupportedLetterRejected ==
    (pc \in {"ready", "init_raised"}
       /\ LET found == Matches IN \E j \in DOMAIN found : found[j][1] \notin Supported)
        => (pc = "init_raised" /\ err = "UnsupportedCommandError" /\ commands = << >>)

\* C2: the first command of every parsed path is absolute, whatever the case of
\* its letter, and every later command is absolute exactly when the letter it was
\* written under is upper case.
C2_FirstCommandAbsolute ==
    (pc = "ready" /\ Len(commands) > 0)
        => LET src == Sources
           IN  /\ commands[1].is_abs
               /\ Len(commands) = Len(src)
               /\ \A i \in 2..Len(commands) : commands[i].is_abs = isupper(src[i].letter)

\* C2's case: a path written with a lower-case first letter, parsed, with a later
\* relative command
C2_Witness ==
    /\ pc = "ready"
    /\ Len(commands) > 1
    /\ islower(path_d[1])
    /\ commands[1].is_abs
    /\ \E i \in 2..Len(commands) : ~commands[i].is_abs

\* the command a parameter group after the first stands for: a pen-down lineto
\* of the letter's case after m/M, the letter's own command otherwise
ImplicitCommand(src) ==
    IF src.letter \in {"m", "M"}
    THEN PathCommand(src.letter = "M", TRUE, Some(src.group[1]),
                     IF Len(src.group) > 1 THEN Some(0 - src.group[2]) ELSE None)
    ELSE LET one == _add_command(<< >>, src.letter, src.group).commands IN one[1]

\* C3: every parameter group after the first of a letter becomes one more
\* command of that letter and case, a pen-down lineto of the letter's case after
\* m/M, chosen from the letter as written; "m 1,1 2,2" parses to an absolute
\* pen-up move (1,-1) followed by a relative pen-down line (2,-2).
C3_ImplicitRepeats ==
    /\ pc = "ready"
         => LET src == Sources
            IN  /\ Len(commands) = Len(src)
                /\ \A i \in DOMAIN commands :
                     src[i].rank > 1 => commands[i] = ImplicitCommand(src[i])
    /\ (pc = "ready" /\ path_d = MoveRepeat /\ scale = 1)
         => commands = << PathCommand(TRUE, FALSE, <<1>>, <<-1>>),
                          PathCommand(FALSE, TRUE, <<2>>, <<-2>>) >>

\* C3's case: "m 1,1 2,2" parsed into its two commands
C3_Witness ==
    /\ pc = "ready"
    /\ path_d = MoveRepeat
    /\ Len(commands) = 2
    /\ Sources[2].rank = 2

\* C9: the parser fails, producing no command, when a moveto or lineto group
\* has fewer than two values or a horizontal or vertical command has no value.
C9_MalformedCountsRejected ==
    (pc \in {"ready", "init_raised"} /\ err # "ValueError"
       /\ LET src == Sources
          IN  \E i \in DOMAIN src :
                \/ lower(src[i].letter) \in {"m", "l"} /\ Len(src[i].group) < 2
                \/ lower(src[i].letter) \in {"h", "v"} /\ src[i].nvals = 0)
        => pc = "init_raised"

\* C10: each value after h/H becomes a command with that x and no y, each value
\* after v/V a command with no x and that y negated, none dropped, and z/Z a
\* command with neither.
C10_SingleAxisCommands ==
    pc = "ready"
        => /\ Len(commands) = Len(Sources)
           /\ \A i \in DOMAIN commands :
                LET src == Sources[i]
                IN  /\ (lower(src.letter) = "h" /\ src.nvals > 0)
                          => commands[i].x # None /\ commands[i].y = None
                    /\ (lower(src.letter) = "v" /\ src.nvals > 0)
                          => /\ commands[i].x = None /\ commands[i].y # None
                             /\ Len(src.group) = 1
                    /\ (lower(src.letter) = "z" /\ src.nvals = 0)
                          => commands[i].x = None /\ commands[i].y = None

(***************************************************************************)
(* The replay, seen from the surface: where the turtle was before and      *)
(* after each command replayed so far.                                     *)
(***************************************************************************)
IsClosePath(cmd) == cmd.x = None /\ cmd.y = None

\* the commands replayed so far are 1..Replayed
Replayed == Len(trail)
PosBefore(i) == trail[i]
PosAfter(i) == IF i < Len(trail) THEN trail[i + 1] ELSE t.pos

\* the last close-path command among the commands 1..i, 0 if none
LastClose(i) ==
    LET closes == { j \in 1..i : IsClosePath(commands[j]) }
    IN  IF closes = {} THEN 0 ELSE CHOOSE j \in closes : \A m \in closes : m <= j

\* the pen-down commands of the subpath that command i belongs to, up to i
PenDownsUpTo(i) == { j \in (LastClose(i - 1) + 1)..i : commands[j].pendown }

\* where a close-path command at i is to go: where the turtle was before the first
\* pen-down command of the subpath, the origin when the subpath has none
Anchor(i) ==
    IF PenDownsUpTo(i) = {} THEN <<0, 0>>
    ELSE PosBefore(CHOOSE j \in PenDownsUpTo(i) : \A m \in PenDownsUpTo(i) : j <= m)

\* C4: every close-path command moves the turtle to where it was just before
\* the first pen-down command of the current subpath (the origin if there is
\* none) and clears the anchor, so that the next pen-down command records a new
\* one; "M0,0 L10,0 L10,10 Z" drawn at an offset ends at that offset.
C4_ClosePathReturnsToAnchor ==
    /\ pc \in {"drawing", "returned"}
         => /\ \A i \in 1..Replayed : IsClosePath(commands[i]) => PosAfter(i) = Anchor(i)
            /\ first_point =
                 (LET downs == { j \in (LastClose(Replayed) + 1)..Replayed : commands[j].pendown }
                  IN  IF downs = {} THEN None
                      ELSE Some(PosBefore(CHOOSE j \in downs : \A m \in downs : j <= m)))
    /\ (pc = "returned" /\ path_d = ClosedTriangle) => t.pos = offset

\* C4's case: a second subpath closed at an anchor of its own, away from the
\* origin and from the offset
C4_Witness ==
    /\ pc = "returned"
    /\ path_d = TwoSubpaths
    /\ \E i \in 1..Replayed :
         /\ IsClosePath(commands[i])
         /\ LastClose(i - 1) > 0
         /\ PosAfter(i) = Anchor(i)
         /\ PosAfter(i) # PosBefore(i)
         /\ PosAfter(i) # <<0, 0>>
         /\ PosAfter(i) # offset

\* the greatest of a non-empty set of integers
MaxOf(S) == CHOOSE v \in S : \A w \in S : w <= v

\* C6: draw returns the rightmost x the turtle reached: the greatest x of its
\* positions after each command.
C6_ReturnsRightmostX ==
    (pc = "returned" /\ Len(commands) > 0)
        => ret = Some(MaxOf({ PosAfter(i)[1] : i \in 1..Replayed }))

\* C7: draw of a path without commands returns 0, raises nothing and makes no
\* call to the turtle.
C7_EmptyPathReturnsZero ==
    (Len(commands) = 0 /\ pc \in {"drawing", "returned", "draw_raised"})
        => /\ pc # "draw_raised"
           /\ err = ""
           /\ pc = "returned" => ret = Some(0)
           /\ t.calls = << >>

(***************************************************************************)
(* The strip.                                                              *)
(***************************************************************************)
\* neither the character nor its upper-case form is a registered glyph
InvalidDigit(c) == c \notin DIGIT_CHARS /\ upper(c) \notin DIGIT_CHARS

HasInvalidDigit(text) == \E i \in DOMAIN text : InvalidDigit(text[i])

FirstInvalid(text) ==
    CHOOSE i \in DOMAIN text :
        InvalidDigit(text[i]) /\ \A j \in 1..(i - 1) : ~InvalidDigit(text[j])

\* the turtle as the head of DigitsDisplay.draw leaves it
PostReset == ResetTurtle(NewTurtle)

\* C5: the glyphs are drawn in the order of the characters, the first at the
\* x of the offset and each later one at what the previous glyph's draw
\* returned plus 10; with the font of "M0,0H20" glyphs at scale 1 and offset
\* (0,0), "xAB" is three glyph draws at 0, 30 and 60.
C5_GlyphsLeftToRight ==
    /\ dpc \in {"loop", "done", "raised"}
         => /\ Len(glyph_draws) <= Len(digits_str)
            /\ \A i \in DOMAIN glyph_draws :
                 /\ glyph_draws[i][1] \in {digits_str[i], upper(digits_str[i])}
                 /\ glyph_draws[i][2] = IF i = 1 THEN offset[1]
                                        ELSE glyph_draws[i - 1][3][1] + 10
    /\ dpc = "done" => Len(glyph_draws) = Len(digits_str)
    /\ (dpc = "done" /\ font = "segment20" /\ scale = 1 /\ offset = <<0, 0>>
          /\ digits_str = TextXAB)
         => glyph_draws = << <<"x", 0, <<20>> >>, <<"A", 30, <<50>> >>, <<"B", 60, <<80>> >> >>

\* C5's case: "xAB" drawn to the end with the font of "M0,0H20" glyphs
C5_Witness ==
    /\ dpc = "done"
    /\ font = "segment20"
    /\ scale = 1
    /\ offset = <<0, 0>>
    /\ digits_str = TextXAB
    /\ Len(glyph_draws) = 3

\* C8 as claimed: a text with an invalid character anywhere makes draw fail with
\* the invalid-digit error and leaves the turtle as the reset left it.
C8_InvalidDigitLeavesPostReset ==
    (dpc \in {"done", "raised"} /\ HasInvalidDigit(digits_str))
        => (dpc = "raised" /\ derr = "ValueError" /\ t = PostReset)

\* C8 amended: a text with an invalid character never draws to the end; the
\* invalid-digit error is raised when the loop reaches the first invalid
\* character, after the glyphs of the characters before it were drawn in order
\* and with no call to the turtle for that character; the turtle is left as the
\* reset left it when the invalid character is the first of the text.
C8_InvalidDigitStopsAtCharacter ==
    /\ HasInvalidDigit(digits_str) => dpc # "done"
    /\ (dpc = "raised" /\ derr = "ValueError")
         => /\ HasInvalidDigit(digits_str)
            /\ k = FirstInvalid(digits_str)
            /\ Len(glyph_draws) = k - 1
            /\ \A i \in DOMAIN glyph_draws : glyph_draws[i][3] # None
    /\ (dpc = "raised" /\ HasInvalidDigit(digits_str) /\ FirstInvalid(digits_str) = 1)
         => (derr = "ValueError" /\ t = PostReset)
    /\ (dpc = "loop" /\ k <= Len(digits_str) /\ InvalidDigit(digits_str[k]))
         => ~ENABLED (StripDigit /\ t' # t)

\* C8's case: the invalid character comes after a drawn glyph, and the turtle
\* holds that glyph's strokes when the error is raised
C8_Witness ==
    /\ dpc = "raised"
    /\ derr = "ValueError"
    /\ k > 1
    /\ InvalidDigit(digits_str[k])
    /\ t # PostReset
    /\ t.pos # <<0, 0>>

====
